---- MODULE Spec2Model ----
(***************************************************************************)
(* State machine of the Home component of src/src/app/page.tsx: the React  *)
(* state hooks are the variables, every event handler and every            *)
(* continuation of an asynchronous call (file read, generator, evaluator)  *)
(* is one action.  A handler reads the state of the render in which it was *)
(* created; the part of a handler that runs after an `await` therefore     *)
(* works on the values captured when the handler was called, which the     *)
(* pending request carries with it.  Array indices are 1-based here        *)
(* (index k of the model is index k-1 of the source).                      *)
(***************************************************************************)
EXTENDS Integers, Sequences, FiniteSets, Bags, TLC

VARIABLES
  pdfContent,         \* string | null
  questions,          \* Question[] | null
  userAnswers,        \* string[]
  isPdfUploaded,      \* boolean
  evaluationResults,  \* (EvaluationResult | null)[]
  questionCount,      \* number
  score,              \* number
  isLoading,          \* boolean
  isEvaluating,       \* boolean[]
  fileInput,          \* value of the file <input> behind fileInputRef
  reads,              \* bag of FileReader reads in flight
  genRequests,        \* bag of generateQuestionnaire calls in flight
  evalRequests,       \* bag of evaluateAnswer calls in flight
  credited            \* history: score increments made for each index by requests of the current question set

vars == <<pdfContent, questions, userAnswers, isPdfUploaded, evaluationResults,
          questionCount, score, isLoading, isEvaluating, fileInput,
          reads, genRequests, evalRequests, credited>>

hooks == <<pdfContent, questions, userAnswers, isPdfUploaded, evaluationResults,
           questionCount, score, isLoading, isEvaluating>>

-----------------------------------------------------------------------------
(* Bounds of the model *)

\* largest question count a generation is started with
MaxQuestions == 2
\* largest number of evaluateAnswer calls in flight at once
MaxPending == 2
\* longest file, in bytes, of the file intake specification
MaxFileLen == 5
\* the user picks among the first MaxChoice options of a question
MaxChoice == 2

-----------------------------------------------------------------------------
(* JavaScript values *)

Null == [type |-> "null"]
Undefined == [type |-> "undefined"]
Bool(b) == [type |-> "boolean", value |-> b]
True == Bool(TRUE)
False == Bool(FALSE)
\* a string, as its sequence of characters
Str(s) == [type |-> "string", value |-> s]
Num(n) == [type |-> "number", value |-> n]
NaN == [type |-> "NaN"]
Arr(items) == [type |-> "array", items |-> items]

\* arr[i], undefined outside the array
At(arr, i) == IF i \in 1..Len(arr) THEN arr[i] ELSE Undefined

\* !v for the values above
Falsy(v) ==
  \/ v = Null
  \/ v = Undefined
  \/ v = False
  \/ v.type = "string" /\ v.value = <<>>

\* Array(n).fill(v)
Fill(n, v) == [k \in 1..n |-> v]

\* const copy = [...arr]; copy[i] = v   (writing past the end leaves holes)
CopySet(arr, i, v) ==
  [k \in 1..(IF i > Len(arr) THEN i ELSE Len(arr)) |->
     IF k = i THEN v ELSE At(arr, k)]

\* the bag b with one copy of r added / removed
Add(b, r) == b (+) SetToBag({r})
Remove(b, r) == b (-) SetToBag({r})

-----------------------------------------------------------------------------
(* File intake *)

\* no file selected (event.target.files is empty): not a byte sequence
NoFile == <<-1>>

\* the files the user can select, as byte sequences
Files ==
  { <<37, 80, 68, 70, 45>>,          \* "%PDF-"
    <<37, 80, 68>>,                  \* too short
    <<2, 85, 4, 68, 70>>,            \* leading bytes below 0x10
    <<80, 75, 3, 4, 20>>,            \* a zip archive
    <<>> }                           \* an empty file

HexDigit(d) ==
  CASE d = 0 -> "0" [] d = 1 -> "1" [] d = 2 -> "2" [] d = 3 -> "3"
    [] d = 4 -> "4" [] d = 5 -> "5" [] d = 6 -> "6" [] d = 7 -> "7"
    [] d = 8 -> "8" [] d = 9 -> "9" [] d = 10 -> "a" [] d = 11 -> "b"
    [] d = 12 -> "c" [] d = 13 -> "d" [] d = 14 -> "e" [] d = 15 -> "f"

\* byte.toString(): the radix forgotten
ToString16_Decimal(byte) ==
  IF byte < 10 THEN HexDigit(byte)
  ELSE IF byte < 100 THEN HexDigit(byte \div 10) \o HexDigit(byte % 10)
  ELSE HexDigit(byte \div 100) \o HexDigit((byte \div 10) % 10) \o HexDigit(byte % 10)

\* byte.toString(16): no leading zero
ToString16(byte) ==
  IF byte < 16 THEN HexDigit(byte)
  ELSE HexDigit(byte \div 16) \o HexDigit(byte % 16)

\* new Uint8Array(buffer).subarray(0, 4)
Subarray4(bytes) == SubSeq(bytes, 1, IF Len(bytes) < 4 THEN Len(bytes) ELSE 4)

RECURSIVE HeaderOf(_)
HeaderOf(arr) ==
  IF arr = <<>> THEN ""
  ELSE HeaderOf(SubSeq(arr, 1, Len(arr) - 1)) \o ToString16(arr[Len(arr)])

PdfSignature == "25504446"

\* readAsText(file): the bytes as characters
ReadAsText(file) == Str(file)

\* requests issued before a reset belong to an older session (history only)
MarkStale(requests) ==
  LET S == BagToSet(requests)
      fresh(q) == [q EXCEPT !.stale = FALSE]
      count(q) == IF q \in S THEN requests[q] ELSE 0
  IN  [q \in {[r EXCEPT !.stale = TRUE] : r \in S} |-> count(q) + count(fresh(q))]

\* handleClear without its setIsEvaluating([])
handleClear_KeepsFlags ==
  /\ pdfContent' = Null
  /\ questions' = Null
  /\ userAnswers' = <<>>
  /\ isPdfUploaded' = FALSE
  /\ evaluationResults' = <<>>
  /\ score' = 0
  /\ isLoading' = FALSE
  /\ UNCHANGED isEvaluating
  /\ fileInput' = NoFile
  /\ UNCHANGED questionCount
  /\ credited' = <<>>

\* handleClear: the state hooks and the file input it resets
handleClear ==
  /\ pdfContent' = Null
  /\ questions' = Null
  /\ userAnswers' = <<>>
  /\ isPdfUploaded' = FALSE
  /\ evaluationResults' = <<>>
  /\ score' = 0
  /\ isLoading' = FALSE
  /\ isEvaluating' = <<>>
  /\ fileInput' = NoFile
  /\ UNCHANGED questionCount
  /\ credited' = <<>>

\* handleFileUpload with the file the change event carries
handleFileUpload(file) ==
  /\ fileInput' = file
  /\ IF file = NoFile
       THEN UNCHANGED <<hooks, reads, genRequests, evalRequests, credited>>
       ELSE /\ isLoading' = TRUE
            /\ pdfContent' = Null
            /\ questions' = Null
            /\ userAnswers' = <<>>
            /\ evaluationResults' = <<>>
            /\ score' = 0
            /\ isPdfUploaded' = FALSE
            /\ reads' = Add(reads, [file |-> file, stage |-> "arrayBuffer"])
            /\ evalRequests' = MarkStale(evalRequests)
            /\ credited' = <<>>
            /\ UNCHANGED <<questionCount, isEvaluating, genRequests>>

\* the file <input> is disabled while loading
FileInputEnabled == ~isLoading

ChangeFile ==
  \E file \in Files \cup {NoFile} :
    /\ FileInputEnabled
    /\ handleFileUpload(file)

\* header !== "25504446"
InvalidFileType(file) == HeaderOf(Subarray4(file)) # PdfSignature

\* reader.onload of the read r: the signature check
ReaderLoaded(r) ==
  /\ r.stage = "arrayBuffer"
  /\ IF InvalidFileType(r.file)
       THEN /\ handleClear
            /\ reads' = Remove(reads, r)
            /\ evalRequests' = MarkStale(evalRequests)
            /\ UNCHANGED genRequests
       ELSE /\ reads' = Add(Remove(reads, r), [r EXCEPT !.stage = "text"])
            /\ UNCHANGED <<hooks, fileInput, genRequests, evalRequests, credited>>

ReaderOnLoad == \E r \in BagToSet(reads) : ReaderLoaded(r)

\* reader.onerror and textReader.onerror
ReaderOnError ==
  \E r \in BagToSet(reads) :
    /\ handleClear
    /\ reads' = Remove(reads, r)
    /\ evalRequests' = MarkStale(evalRequests)
    /\ UNCHANGED genRequests

\* textReader.onload
TextReaderOnLoad ==
  \E r \in BagToSet(reads) :
    /\ r.stage = "text"
    /\ pdfContent' = ReadAsText(r.file)
    /\ isPdfUploaded' = TRUE
    /\ isLoading' = FALSE
    /\ reads' = Remove(reads, r)
    /\ UNCHANGED <<questions, userAnswers, evaluationResults, questionCount, score,
                   isEvaluating, fileInput, genRequests, evalRequests, credited>>

-----------------------------------------------------------------------------
(* Question count *)

Digits == <<"0", "1", "2", "3", "4", "5", "6", "7", "8", "9">>

IsDigit(c) == \E d \in 1..10 : Digits[d] = c
DigitValue(c) == (CHOOSE d \in 1..10 : Digits[d] = c) - 1

\* what the user can type into the number input, as characters
CountInputs ==
  { <<"1">>, <<"2">>, <<"3">>, <<"0">>, <<"-", "5">>, <<"9", "9", "9">>,
    <<"2", ".", "7">>, <<>> }

RECURSIVE DigitsValue(_, _)
\* value of the longest prefix of digits of cs, after acc
DigitsValue(cs, acc) ==
  IF cs = <<>> \/ ~IsDigit(Head(cs)) THEN acc
  ELSE DigitsValue(Tail(cs), 10 * acc + DigitValue(Head(cs)))

\* parseInt(text): optional sign, then digits up to the first other character
ParseInt(text) ==
  LET neg == text # <<>> /\ Head(text) = "-"
      body == IF text # <<>> /\ Head(text) \in {"-", "+"} THEN Tail(text) ELSE text
  IN  IF body = <<>> \/ ~IsDigit(Head(body)) THEN NaN
      ELSE Num(IF neg THEN 0 - DigitsValue(body, 0) ELSE DigitsValue(body, 0))

Min(a, b) == IF a < b THEN a ELSE b
Max(a, b) == IF a > b THEN a ELSE b

\* Math.max(1, parseInt(value) || 1): the upper limit forgotten
ClampCount_NoUpper(text) ==
  LET parsed == ParseInt(text)
      n == IF parsed = NaN \/ parsed.value = 0 THEN 1 ELSE parsed.value
  IN  Max(1, n)

\* Math.max(1, Math.min(20, parseInt(value) || 1))
ClampCount(text) ==
  LET parsed == ParseInt(text)
      n == IF parsed = NaN \/ parsed.value = 0 THEN 1 ELSE parsed.value
  IN  Max(1, Min(20, n))

\* the number input is disabled while loading and once questions exist
CountInputEnabled == ~(isLoading \/ questions # Null)

ChangeCount ==
  \E text \in CountInputs :
    /\ CountInputEnabled
    /\ questionCount' = ClampCount(text)
    /\ UNCHANGED <<pdfContent, questions, userAnswers, isPdfUploaded, evaluationResults,
                   score, isLoading, isEvaluating, fileInput,
                   reads, genRequests, evalRequests, credited>>

-----------------------------------------------------------------------------
(* Question generation *)

\* a question of the generator: four options, one of them the answer
Question(k) ==
  [question |-> k,
   options |-> <<Str(<<"A">>), Str(<<"B">>), Str(<<"C">>), Str(<<"D">>)>>,
   answer |-> Str(<<"A">>)]

\* what a call of generateQuestionnaire can end with
generateQuestionnaire(input) ==
  { [kind |-> "reject"],
    [kind |-> "resolve", value |-> Null],
    [kind |-> "resolve", value |-> [type |-> "object", questions |-> Arr(<<>>)]],
    [kind |-> "resolve",
     value |-> [type |-> "object",
                questions |-> Arr([k \in 1..input.questionCount |-> Question(k)])]] }

\* handleGenerateQuestions up to its await
handleGenerateQuestions ==
  IF Falsy(pdfContent)
    THEN UNCHANGED vars
    ELSE /\ isLoading' = TRUE
         /\ questions' = Null
         /\ userAnswers' = <<>>
         /\ evaluationResults' = <<>>
         /\ score' = 0
         /\ genRequests' = Add(genRequests, [pdfContent |-> pdfContent,
                                             questionCount |-> questionCount])
         /\ evalRequests' = MarkStale(evalRequests)
         /\ credited' = <<>>
         /\ UNCHANGED <<pdfContent, isPdfUploaded, questionCount, isEvaluating,
                        fileInput, reads>>

\* the Generate button without its isLoading test
GenerateEnabled_IgnoresLoading == isPdfUploaded

\* the Generate button
GenerateEnabled == ~(~isPdfUploaded \/ isLoading)

ClickGenerate ==
  /\ GenerateEnabled
  /\ questionCount <= MaxQuestions
  /\ handleGenerateQuestions

\* !questionnaire || !questionnaire.questions || questionnaire.questions.length === 0
NoQuestions(questionnaire) ==
  \/ Falsy(questionnaire)
  \/ Falsy(questionnaire.questions)
  \/ Len(questionnaire.questions.items) = 0

\* GenerateSettled without its setIsEvaluating(Array(n).fill(false))
GenerateSettled_KeepsFlags(r, outcome) ==
  /\ IF outcome.kind = "resolve" /\ ~NoQuestions(outcome.value)
       THEN LET n == Len(outcome.value.questions.items) IN
            /\ questions' = outcome.value.questions
            /\ userAnswers' = Fill(n, Str(<<>>))
            /\ evaluationResults' = Fill(n, Null)
            /\ UNCHANGED isEvaluating
            /\ score' = 0
            /\ credited' = Fill(n, 0)
       ELSE /\ questions' = Null
            /\ UNCHANGED <<userAnswers, evaluationResults, isEvaluating, score, credited>>
  /\ isLoading' = FALSE
  /\ genRequests' = Remove(genRequests, r)
  /\ UNCHANGED <<pdfContent, isPdfUploaded, questionCount, fileInput, reads, evalRequests>>

\* handleGenerateQuestions after its await, the call ending with outcome
GenerateSettled(r, outcome) ==
  /\ IF outcome.kind = "resolve" /\ ~NoQuestions(outcome.value)
       THEN LET n == Len(outcome.value.questions.items) IN
            /\ questions' = outcome.value.questions
            /\ userAnswers' = Fill(n, Str(<<>>))
            /\ evaluationResults' = Fill(n, Null)
            /\ isEvaluating' = Fill(n, False)
            /\ score' = 0
            /\ credited' = Fill(n, 0)
       ELSE /\ questions' = Null
            /\ UNCHANGED <<userAnswers, evaluationResults, isEvaluating, score, credited>>
  /\ isLoading' = FALSE
  /\ genRequests' = Remove(genRequests, r)
  /\ UNCHANGED <<pdfContent, isPdfUploaded, questionCount, fileInput, reads, evalRequests>>

GenerateDone ==
  \E r \in BagToSet(genRequests) :
    \E outcome \in generateQuestionnaire(r) : GenerateSettled(r, outcome)

-----------------------------------------------------------------------------
(* Answer collection and evaluation *)

\* the question cards rendered: questions && questions.length > 0 && questions.map
Rendered == IF questions = Null THEN {} ELSE 1..Len(questions.items)

\* !question.options || !Array.isArray(question.options) || question.options.length !== 4
InvalidOptions(question) == Len(question.options) # 4

\* the RadioGroup of a card is shown and not disabled
RadioEnabled(index) ==
  /\ index \in Rendered
  /\ ~InvalidOptions(questions.items[index])
  /\ ~(At(evaluationResults, index) # Null \/ At(isEvaluating, index) = True)

handleAnswerChange(index, answer) ==
  /\ userAnswers' = CopySet(userAnswers, index, answer)
  /\ UNCHANGED <<pdfContent, questions, isPdfUploaded, evaluationResults, questionCount,
                 score, isLoading, isEvaluating, fileInput,
                 reads, genRequests, evalRequests, credited>>

SelectAnswer ==
  \E index \in Rendered :
    /\ RadioEnabled(index)
    /\ \E o \in 1..Min(MaxChoice, Len(questions.items[index].options)) :
         handleAnswerChange(index, questions.items[index].options[o])

\* the Submit Answer button of a card is not disabled
SubmitEnabled(index) ==
  /\ index \in Rendered
  /\ ~( \/ Falsy(At(userAnswers, index))
        \/ At(evaluationResults, index) # Null
        \/ At(isEvaluating, index) = True
        \/ InvalidOptions(questions.items[index]) )

\* !pdfContent || !questions?.[index] || !userAnswers[index]
PreconditionsNotMet(index) ==
  ~( /\ ~Falsy(pdfContent)
     /\ questions # Null
     /\ index \in 1..Len(questions.items)
     /\ ~Falsy(At(userAnswers, index)) )

\* handleSubmitAnswer marking the index as evaluating before it tests its preconditions
handleSubmitAnswer_FlagFirst(index) ==
  IF PreconditionsNotMet(index)
    THEN /\ isEvaluating' = CopySet(isEvaluating, index, True)
         /\ UNCHANGED <<pdfContent, questions, userAnswers, isPdfUploaded,
                        evaluationResults, questionCount, score, isLoading,
                        fileInput, reads, genRequests, evalRequests, credited>>
    ELSE /\ isEvaluating' = CopySet(isEvaluating, index, True)
         /\ evalRequests' =
              Add(evalRequests,
                  [index |-> index,
                   evaluationInput |->
                     [question |-> questions.items[index].question,
                      userAnswer |-> userAnswers[index],
                      correctAnswer |-> questions.items[index].answer,
                      pdfContent |-> pdfContent],
                   evaluationResults |-> evaluationResults,
                   isEvaluating |-> isEvaluating,
                   stale |-> FALSE])
         /\ UNCHANGED <<pdfContent, questions, userAnswers, isPdfUploaded,
                        evaluationResults, questionCount, score, isLoading,
                        fileInput, reads, genRequests, credited>>

\* handleSubmitAnswer up to its await
handleSubmitAnswer(index) ==
  IF PreconditionsNotMet(index)
    THEN UNCHANGED vars
    ELSE /\ isEvaluating' = CopySet(isEvaluating, index, True)
         /\ evalRequests' =
              Add(evalRequests,
                  [index |-> index,
                   evaluationInput |->
                     [question |-> questions.items[index].question,
                      userAnswer |-> userAnswers[index],
                      correctAnswer |-> questions.items[index].answer,
                      pdfContent |-> pdfContent],
                   evaluationResults |-> evaluationResults,
                   isEvaluating |-> isEvaluating,
                   stale |-> FALSE])
         /\ UNCHANGED <<pdfContent, questions, userAnswers, isPdfUploaded,
                        evaluationResults, questionCount, score, isLoading,
                        fileInput, reads, genRequests, credited>>

ClickSubmit ==
  \E index \in Rendered :
    /\ SubmitEnabled(index)
    /\ BagCardinality(evalRequests) < MaxPending
    /\ handleSubmitAnswer(index)

\* what a call of evaluateAnswer can end with
evaluateAnswer(input) ==
  { [kind |-> "reject"],
    [kind |-> "resolve", value |-> [type |-> "object", score |-> Undefined]],
    [kind |-> "resolve", value |-> [type |-> "object", score |-> Num(0)]],
    [kind |-> "resolve", value |-> [type |-> "object", score |-> Num(1)]] }

\* the call resolved and typeof evaluation?.score === 'number'
Evaluated(outcome) == outcome.kind = "resolve" /\ outcome.value.score.type = "number"

\* EvaluateSettled with the commented-out lines 186-188 in force: a failed call
\* stores { score: NaN } at the index
EvaluateSettled_StoresError(r, outcome) ==
  /\ IF Evaluated(outcome)
       THEN /\ evaluationResults' = CopySet(r.evaluationResults, r.index, outcome.value)
            /\ score' = IF outcome.value.score = Num(1) THEN score + 1 ELSE score
            /\ credited' = IF outcome.value.score = Num(1) /\ ~r.stale
                             THEN [credited EXCEPT ![r.index] = @ + 1]
                             ELSE credited
       ELSE /\ evaluationResults' =
                 CopySet(r.evaluationResults, r.index, [type |-> "object", score |-> NaN])
            /\ UNCHANGED <<score, credited>>
  /\ isEvaluating' = CopySet(r.isEvaluating, r.index, False)
  /\ evalRequests' = Remove(evalRequests, r)
  /\ UNCHANGED <<pdfContent, questions, userAnswers, isPdfUploaded, questionCount,
                 isLoading, fileInput, reads, genRequests>>

\* handleSubmitAnswer after its await, the call ending with outcome: the arrays
\* it copies are the ones of the render the handler was called in
EvaluateSettled(r, outcome) ==
  /\ IF Evaluated(outcome)
       THEN /\ evaluationResults' = CopySet(r.evaluationResults, r.index, outcome.value)
            /\ score' = IF outcome.value.score = Num(1) THEN score + 1 ELSE score
            /\ credited' = IF outcome.value.score = Num(1) /\ ~r.stale
                             THEN [credited EXCEPT ![r.index] = @ + 1]
                             ELSE credited
       ELSE UNCHANGED <<evaluationResults, score, credited>>
  /\ isEvaluating' = CopySet(r.isEvaluating, r.index, False)
  /\ evalRequests' = Remove(evalRequests, r)
  /\ UNCHANGED <<pdfContent, questions, userAnswers, isPdfUploaded, questionCount,
                 isLoading, fileInput, reads, genRequests>>

EvaluateDone ==
  \E r \in BagToSet(evalRequests) :
    \E outcome \in evaluateAnswer(r.evaluationInput) : EvaluateSettled(r, outcome)

-----------------------------------------------------------------------------
(* Completion and reset *)

allAnswersEvaluated ==
  IF questions = Null \/ Len(questions.items) = 0 THEN FALSE
  ELSE \A k \in 1..Len(evaluationResults) : evaluationResults[k] # Null

\* the Clear button is shown and not disabled
ClearEnabled == (isPdfUploaded \/ questions # Null) /\ ~isLoading

ClickClear ==
  /\ ClearEnabled
  /\ handleClear
  /\ evalRequests' = MarkStale(evalRequests)
  /\ UNCHANGED <<reads, genRequests>>

\* the completion card with its Start New Quiz button is shown
CompletionShown ==
  questions # Null /\ Len(questions.items) > 0 /\ allAnswersEvaluated

ClickStartNewQuiz ==
  /\ CompletionShown
  /\ handleClear
  /\ evalRequests' = MarkStale(evalRequests)
  /\ UNCHANGED <<reads, genRequests>>

-----------------------------------------------------------------------------

Init ==
  /\ pdfContent = Null
  /\ questions = Null
  /\ userAnswers = <<>>
  /\ isPdfUploaded = FALSE
  /\ evaluationResults = <<>>
  /\ questionCount = 5
  /\ score = 0
  /\ isLoading = FALSE
  /\ isEvaluating = <<>>
  /\ fileInput = NoFile
  /\ reads = EmptyBag
  /\ genRequests = EmptyBag
  /\ evalRequests = EmptyBag
  /\ credited = <<>>

Next ==
  \/ ChangeFile
  \/ ReaderOnLoad
  \/ ReaderOnError
  \/ TextReaderOnLoad
  \/ ChangeCount
  \/ ClickGenerate
  \/ GenerateDone
  \/ SelectAnswer
  \/ ClickSubmit
  \/ EvaluateDone
  \/ ClickClear
  \/ ClickStartNewQuiz

Spec == Init /\ [][Next]_vars

-----------------------------------------------------------------------------
(* Properties *)

NumQuestions == IF questions = Null THEN 0 ELSE Len(questions.items)

\* evaluateAnswer calls in flight for index i, issued for the current question set
InFlight(i) == {r \in BagToSet(evalRequests) : r.index = i /\ ~r.stale}

\* evaluateAnswer calls in flight that were issued before the last reset
StaleRequests == {r \in BagToSet(evalRequests) : r.stale}

Outcomes == evaluateAnswer(Null)

HasResult(results, i) == At(results, i).type = "object"

\* the Empty state of the session
EmptyState ==
  /\ pdfContent = Null
  /\ questions = Null
  /\ userAnswers = <<>>
  /\ evaluationResults = <<>>
  /\ score = 0
  /\ isPdfUploaded = FALSE
  /\ isLoading = FALSE
  /\ isEvaluating = <<>>

\* C1: whenever questions exist, userAnswers, evaluationResults and isEvaluating
\* have the length of questions.
C1_SameLengths ==
  questions # Null =>
    /\ Len(userAnswers) = NumQuestions
    /\ Len(evaluationResults) = NumQuestions
    /\ Len(isEvaluating) = NumQuestions

\* C2: within one question set the score is incremented at most once on behalf
\* of each index.
C2_CreditedOnce == \A i \in DOMAIN credited : credited[i] <= 1

\* C3: at most one evaluation request per index is in flight, and Submit Answer
\* of an index is disabled while a request for it is in flight.
C3_NoDuplicateSubmission ==
  \A i \in Rendered :
    /\ \A r \in InFlight(i) : evalRequests[r] = 1
    /\ Cardinality(InFlight(i)) <= 1
    /\ InFlight(i) # {} => ~SubmitEnabled(i)

\* C4: isEvaluating[i] is false whenever no evaluation request for i is in flight.
C4_FlagReleased ==
  \A i \in 1..Len(isEvaluating) :
    (\A r \in BagToSet(evalRequests) : r.index # i) => isEvaluating[i] # True

\* C5: the start and the completion of an evaluation of index i leave
\* evaluationResults[j] and isEvaluating[j] unchanged for every j # i.
C5_Independent ==
  [][ \A i \in Rendered :
        ( \/ SubmitEnabled(i) /\ handleSubmitAnswer(i)
          \/ \E r \in InFlight(i) : \E o \in Outcomes : EvaluateSettled(r, o) )
        => \A j \in Rendered \ {i} :
             /\ At(evaluationResults', j) = At(evaluationResults, j)
             /\ At(isEvaluating', j) = At(isEvaluating, j) ]_vars

\* C6: within one question set a stored result is neither overwritten nor
\* removed.
C6_WrittenOnce ==
  [][ (questions # Null /\ questions' = questions) =>
        \A i \in Rendered :
          HasResult(evaluationResults, i) =>
            At(evaluationResults', i) = At(evaluationResults, i) ]_vars

\* C7: the completion of a request issued before a reset changes nothing of
\* the session state.
C7_StaleIgnored ==
  [][ (\E r \in StaleRequests : \E o \in Outcomes : EvaluateSettled(r, o))
        => UNCHANGED hooks ]_vars

\* C8: allAnswersEvaluated holds exactly when questions exist and every
\* question index has a result.
C8_AllEvaluated ==
  allAnswersEvaluated <=>
    (NumQuestions > 0 /\ \A i \in 1..NumQuestions : HasResult(evaluationResults, i))

\* a step that runs handleClear: the Clear and Start New Quiz buttons, a failed
\* read, a file without the PDF signature
ClearStep ==
  \/ ClickClear
  \/ ClickStartNewQuiz
  \/ ReaderOnError
  \/ \E r \in BagToSet(reads) : InvalidFileType(r.file) /\ ReaderLoaded(r)

\* C9: the state right after clear() is the Empty state, whatever the state
\* it is called in.
C9_ClearYieldsEmpty == [][ ClearStep => EmptyState' ]_vars

\* C9 witness: Empty while an evaluation issued before the clear is in flight
C9_Witness == EmptyState /\ StaleRequests # {} /\ fileInput = NoFile

C11_OneGeneration ==
  /\ BagCardinality(genRequests) + BagCardinality(reads) <= 1
  /\ (genRequests # EmptyBag \/ reads # EmptyBag) => ~GenerateEnabled
  /\ genRequests # EmptyBag => ~FileInputEnabled /\ ~ClearEnabled /\ ~CompletionShown

\* C11 witness: a generation pending while an evaluation of the previous set is in flight
C11_Witness == genRequests # EmptyBag /\ StaleRequests # {}

-----------------------------------------------------------------------------
(* File intake alone, over every short file of a small byte alphabet *)

\* 0x00, 0x05, '%', 'D', 'F', 'P'
IntakeBytes == {0, 5, 37, 68, 70, 80}

IntakeFiles == UNION {[1..n -> IntakeBytes] : n \in 0..MaxFileLen}

ChangeFileAny ==
  \E file \in IntakeFiles :
    /\ FileInputEnabled
    /\ handleFileUpload(file)

NextIntake ==
  \/ ChangeFileAny
  \/ ReaderOnLoad
  \/ ReaderOnError
  \/ TextReaderOnLoad

SpecIntake == Init /\ [][NextIntake]_vars

\* the first 4 bytes are 0x25 0x50 0x44 0x46
IsPdf(file) ==
  Len(file) >= 4 /\ file[1] = 37 /\ file[2] = 80 /\ file[3] = 68 /\ file[4] = 70

\* C13: the signature check lets a file through exactly if its first 4 bytes
\* are 25 50 44 46; such a file ends, once read as text, with isPdfUploaded and
\* pdfContent set; any other file leaves the session Empty.
C13_AcceptsExactlyPdf ==
  [][ \A r \in BagToSet(reads) :
        /\ ReaderLoaded(r) =>
             IF IsPdf(r.file)
               THEN [r EXCEPT !.stage = "text"] \in BagToSet(reads') /\ UNCHANGED hooks
               ELSE EmptyState' /\ reads' = EmptyBag
        /\ (r.stage = "text" /\ TextReaderOnLoad) =>
             /\ IsPdf(r.file)
             /\ isPdfUploaded'
             /\ pdfContent' = Str(r.file)
             /\ ~Falsy(pdfContent')
             /\ ~isLoading' ]_vars

\* C13 witness: the file of exactly the four signature bytes was accepted
C13_Witness ==
  isPdfUploaded /\ pdfContent = Str(<<37, 80, 68, 70>>) /\ ~isLoading /\ reads = EmptyBag

-----------------------------------------------------------------------------

GenerationFailed(r, o) == GenerateSettled(r, o) /\ (o.kind = "reject" \/ NoQuestions(o.value))

\* C15: after a failed generation pdfContent is still present, isPdfUploaded is
\* true, questions is null, score is 0, isLoading is false and Generate is enabled.
C15_FailureToFileReady ==
  [][ \A r \in BagToSet(genRequests) : \A o \in generateQuestionnaire(r) :
        GenerationFailed(r, o) =>
          /\ ~Falsy(pdfContent')
          /\ isPdfUploaded'
          /\ questions' = Null
          /\ score' = 0
          /\ ~isLoading'
          /\ GenerateEnabled' ]_vars

-----------------------------------------------------------------------------
(* The component with handleSubmitAnswer also called where its button is not *)
(* offered, its preconditions not met                                       *)

CallSubmitAnswer ==
  \E index \in 1..(MaxQuestions + 1) :
    /\ PreconditionsNotMet(index)
    /\ handleSubmitAnswer(index)

NextApi ==
  \/ Next
  \/ CallSubmitAnswer

SpecApi == Init /\ [][NextApi]_vars

\* C16: handleSubmitAnswer(index) called with a precondition violated (no
\* pdfContent, no question at index, or no answer at index) issues no evaluator
\* call and changes no state variable.
C16_NoOp ==
  [][ \A index \in 1..(MaxQuestions + 1) :
        (PreconditionsNotMet(index) /\ handleSubmitAnswer(index)) =>
          /\ evalRequests' = evalRequests
          /\ UNCHANGED <<evaluationResults, isEvaluating, score, userAnswers,
                         questions, pdfContent, isLoading>> ]_vars

\* C16 witness: two questions, the first without an answer, the second answered,
\* no evaluator call issued
C16_Witness ==
  /\ NumQuestions = 2
  /\ PreconditionsNotMet(1)
  /\ ~PreconditionsNotMet(2)
  /\ PreconditionsNotMet(3)
  /\ evalRequests = EmptyBag
  /\ isEvaluating = <<False, False>>

-----------------------------------------------------------------------------

\* the percentage of the completion card: ((score / questions.length) * 100).toFixed(0)
Percentage ==
  IF NumQuestions > 0 THEN (200 * score + NumQuestions) \div (2 * NumQuestions) ELSE 0

\* every question has a stored result with score 1
AllCorrect ==
  \A i \in 1..NumQuestions :
    HasResult(evaluationResults, i) /\ evaluationResults[i].score = Num(1)

\* C17: when the completion card is shown the score does not exceed the number
\* of questions, and if every question was evaluated with score 1 the score is
\* the number of questions and the percentage is 100.
C17_ScoreAtCompletion ==
  CompletionShown =>
    /\ score <= NumQuestions
    /\ AllCorrect => (score = NumQuestions /\ Percentage = 100)

-----------------------------------------------------------------------------
(* One quiz taken to its end: once questions exist the user only selects and *)
(* submits answers, every evaluator call returns a numeric score, and there  *)
(* is no clear, upload or regeneration                                       *)

EvaluateOk ==
  \E r \in BagToSet(evalRequests) :
    \E outcome \in evaluateAnswer(r.evaluationInput) :
      Evaluated(outcome) /\ EvaluateSettled(r, outcome)

QuizSetup ==
  /\ questions = Null
  /\ \/ ChangeFile
     \/ ReaderOnLoad
     \/ ReaderOnError
     \/ TextReaderOnLoad
     \/ ChangeCount
     \/ ClickGenerate
     \/ GenerateDone
     \/ ClickClear

QuizAnswering ==
  /\ questions # Null
  /\ \/ SelectAnswer
     \/ ClickSubmit
     \/ EvaluateOk

NextQuiz ==
  \/ QuizSetup
  \/ QuizAnswering

SpecQuiz == Init /\ [][NextQuiz]_vars

\* C18: the quiz can always go on until it is completed: while a question has
\* no result, an evaluation is in flight or some question without a result can
\* still be answered and submitted (no question is left with no result and its
\* Submit Answer button disabled for good).
C18_NeverStuck ==
  (questions # Null /\ ~allAnswersEvaluated) =>
    \/ evalRequests # EmptyBag
    \/ \E i \in Rendered : RadioEnabled(i)

\* C19: an answer is changed only at an index with no result and no evaluation
\* in flight, and nothing else changes; so a result is stored for the answer
\* that userAnswers holds at its index.
C19_AnswerFixed ==
  [][ /\ \A i \in Rendered : \A o \in 1..4 :
           ( /\ RadioEnabled(i)
             /\ handleAnswerChange(i, questions.items[i].options[o])
             /\ userAnswers' # userAnswers )
           => /\ At(evaluationResults, i) = Null
              /\ InFlight(i) = {}
              /\ \A j \in Rendered \ {i} : userAnswers'[j] = userAnswers[j]
      /\ \A r \in BagToSet(evalRequests) : \A o \in Outcomes :
           (~r.stale /\ Evaluated(o) /\ EvaluateSettled(r, o))
           => At(userAnswers, r.index) = r.evaluationInput.userAnswer ]_vars

\* C20: the score is the number of stored results with score 1.
C20_ScoreCountsResults ==
  score = Cardinality({ i \in 1..Len(evaluationResults) :
                          HasResult(evaluationResults, i)
                          /\ evaluationResults[i].score = Num(1) })

====
